---- MODULE Spec2Model ----
(***************************************************************************)
(* Quad-edge manifold of quadedge-rs (src/src/lib.rs): records of four     *)
(* next-pointers owned by an arena, Node handles (record, index), the      *)
(* constructor make_quad, the mutator splice, and export / import of the   *)
(* next-pointer table as text.                                             *)
(*                                                                         *)
(* A record is identified by its address in the arena that owns it.  The   *)
(* arena of a manifold hands out the addresses start, start+1, ... in      *)
(* allocation order; two manifolds have disjoint address ranges.  Address  *)
(* 0 is the null reference, so that Option<Node> = None is the node with   *)
(* record 0.                                                               *)
(***************************************************************************)
EXTENDS Integers, Sequences, FiniteSets

\* Largest number of records the manifold under construction may hold.
MaxQuads == 2

\* The addresses at which the allocator may place the arena of a manifold,
\* far enough apart for two arenas never to overlap.
ArenaStarts == {16, 64}

Idx == 0..3

----------------------------------------------------------------------------
(* Node and QuadEdge *)

Node(q, i) == [q |-> q, i |-> i]

None == [q |-> 0, i |-> 0]

rem_euclid4(i) == i % 4

\* QuadEdge::default(): four empty next cells (the data cells are never used).
QuadEdge_default == [next |-> [k \in Idx |-> None]]

\* Manifold::default() with the arena placed at address start.
Manifold_default(start) ==
    [start |-> start,
     quads |-> [a \in {} |-> QuadEdge_default],
     qrefs |-> <<>>]

QuadEdge_ind(q, i) == Node(q, rem_euclid4(i))

QuadEdge_orig(q) == QuadEdge_ind(q, 2)

QuadEdge_dest(q) == QuadEdge_ind(q, 2)

\* The stored cell, before expect(): None when the slot was never set.
QuadEdge_next(m, q, i) == m.quads[q].next[rem_euclid4(i)]

\* A rot that does not reduce the index it returns.
QuadEdge_rot_unreduced(q, i) == Node(q, (i + 1) % 256)

\* (i + 1) is computed in u8.
QuadEdge_rot(q, i) == Node(q, rem_euclid4((i + 1) % 256))

QuadEdge_set(m, q, i, node) ==
    [m EXCEPT !.quads[q].next[rem_euclid4(i)] = node]

\* A set_all that leaves the last slot as it was.
QuadEdge_set_all_but_last(m, q, vals) ==
    LET m0 == QuadEdge_set(m, q, 0, vals[1])
        m1 == QuadEdge_set(m0, q, 1, vals[2])
    IN  QuadEdge_set(m1, q, 2, vals[3])

QuadEdge_set_all(m, q, vals) ==
    LET m0 == QuadEdge_set(m, q, 0, vals[1])
        m1 == QuadEdge_set(m0, q, 1, vals[2])
        m2a == QuadEdge_set(m1, q, 2, vals[3])
    IN  QuadEdge_set(m2a, q, 3, vals[4])

Node_next(m, n) == QuadEdge_next(m, n.q, n.i)

Node_set(m, n, node) == QuadEdge_set(m, n.q, n.i, node)

Node_rot(n) == QuadEdge_rot(n.q, n.i)

\* swap panics ("Node not initialized") when either next() finds None; both
\* reads happen before the first write.
swap_panics(m, self, other) ==
    Node_next(m, self) = None \/ Node_next(m, other) = None

\* A swap that forgets to keep self's old next-pointer.
Node_swap_lost(m, self, other) ==
    IF swap_panics(m, self, other) THEN m
    ELSE LET m1 == Node_set(m, self, Node_next(m, other))
         IN  Node_set(m1, other, Node_next(m1, self))

Node_swap(m, self, other) ==
    IF swap_panics(m, self, other) THEN m
    ELSE LET self_next == Node_next(m, self)
             m1 == Node_set(m, self, Node_next(m, other))
         IN  Node_set(m1, other, self_next)

splice_panics(m, self, other) ==
    \/ swap_panics(m, self, other)
    \/ LET m1 == Node_swap(m, self, other)
       IN  swap_panics(m1, Node_rot(Node_next(m1, self)),
                           Node_rot(Node_next(m1, other)))

\* (i + 1) of rot does not fit u8: a build with overflow checks panics there,
\* a build without them wraps (QuadEdge_rot).
rot_overflows(n) == n.i + 1 > 255

\* One of the two rot() calls of splice overflows; the first swap is done by
\* then.
splice_overflows(m, self, other) ==
    /\ ~swap_panics(m, self, other)
    /\ LET m1 == Node_swap(m, self, other)
       IN  \/ rot_overflows(Node_next(m1, self))
           \/ rot_overflows(Node_next(m1, other))

\* A splice that exchanges the primal pointers only.
Node_splice_primal(m, self, other) == Node_swap(m, self, other)

\* A splice whose second exchange pairs self's dual position with other itself.
Node_splice_mixed(m, self, other) ==
    IF swap_panics(m, self, other) THEN m
    ELSE LET m1 == Node_swap(m, self, other)
         IN  Node_swap(m1, Node_rot(Node_next(m1, self)), other)

\* The second exchange reads self.next() and other.next() after the first one.
Node_splice(m, self, other) ==
    IF swap_panics(m, self, other) THEN m
    ELSE LET m1 == Node_swap(m, self, other)
         IN  Node_swap(m1, Node_rot(Node_next(m1, self)),
                           Node_rot(Node_next(m1, other)))

----------------------------------------------------------------------------
(* Manifold *)

\* The address Arena::alloc returns next.
Arena_alloc(m) == m.start + Cardinality(DOMAIN m.quads)

\* The record make_quad returns.
make_quad_result(m) == Arena_alloc(m)

\* make_quad that leaves the dual slots pointing at themselves.
Manifold_make_quad_flat(m) ==
    LET q == Arena_alloc(m)
        m0 == [m EXCEPT
                 !.quads = [a \in DOMAIN m.quads \cup {q} |->
                              IF a = q THEN QuadEdge_default ELSE m.quads[a]],
                 !.qrefs = Append(m.qrefs, q)]
    IN  QuadEdge_set_all(m0, q, <<Node(q, 0), Node(q, 1), Node(q, 2), Node(q, 3)>>)

Manifold_make_quad(m) ==
    LET q == Arena_alloc(m)
        m0 == [m EXCEPT
                 !.quads = [a \in DOMAIN m.quads \cup {q} |->
                              IF a = q THEN QuadEdge_default ELSE m.quads[a]],
                 !.qrefs = Append(m.qrefs, q)]
    IN  QuadEdge_set_all(m0, q, <<Node(q, 0), Node(q, 3), Node(q, 2), Node(q, 1)>>)

----------------------------------------------------------------------------
(* Export / import.  The text is a sequence of tokens: a pair [r,i], null,  *)
(* bytes that are not UTF-8, or the newline that ends a line; brackets,     *)
(* commas and blanks carry no data.                                         *)

Pair(r, i) == [t |-> "pair", r |-> r, i |-> i]
NullTok == [t |-> "null", r |-> 0, i |-> 0]
NL == [t |-> "nl", r |-> 0, i |-> 0]
\* Bytes that are not UTF-8.
BadUtf8 == [t |-> "bad", r |-> 0, i |-> 0]

\* The HashMap of export: address of a record -> its position in qrefs
\* (collect() keeps the last position of a repeated key).
export_map(m) ==
    [q \in {m.qrefs[k] : k \in 1..Len(m.qrefs)} |->
        (CHOOSE k \in 1..Len(m.qrefs) :
            /\ m.qrefs[k] = q
            /\ \A j \in 1..Len(m.qrefs) : m.qrefs[j] = q => j <= k) - 1]

\* An export that writes the position of the record being written, not of the
\* record its pointer targets.
export_token_own(m, pos, k) ==
    LET node == m.quads[m.qrefs[pos]].next[k]
    IN  IF node = None THEN NullTok ELSE Pair(pos - 1, node.i)

\* The text written for slot k of the record at (1-based) position pos.
export_token(m, pos, k) ==
    LET node == m.quads[m.qrefs[pos]].next[k]
    IN  IF node = None THEN NullTok
        ELSE Pair(export_map(m)[node.q], node.i)

export_line(m, pos) ==
    <<export_token(m, pos, 0), export_token(m, pos, 1),
      export_token(m, pos, 2), export_token(m, pos, 3), NL>>

\* An export that writes the newest record first.
RECURSIVE export_from_newest_first(_, _)
export_from_newest_first(m, pos) ==
    IF pos > Len(m.qrefs) THEN <<>>
    ELSE export_from_newest_first(m, pos + 1) \o export_line(m, pos)

RECURSIVE export_from(_, _)
export_from(m, pos) ==
    IF pos > Len(m.qrefs) THEN <<>>
    ELSE export_line(m, pos) \o export_from(m, pos + 1)

Manifold_export(m) == export_from(m, 1)

\* BufRead::lines(): the text cut at each newline; a last line that has no
\* newline is a line too, unless it is empty.
RECURSIVE buf_lines(_, _)
buf_lines(text, cur) ==
    IF text = <<>> THEN (IF cur = <<>> THEN <<>> ELSE <<cur>>)
    ELSE IF Head(text).t = "nl" THEN <<cur>> \o buf_lines(Tail(text), <<>>)
    ELSE buf_lines(Tail(text), Append(cur, Head(text)))

\* The item lines() yields for this line is Err: read_line found bytes that
\* are not UTF-8.
line_is_err(line) == \E k \in 1..Len(line) : line[k].t = "bad"

\* serde_json::from_str::<[(usize, u8); 4]>(line) is Ok.
from_str_ok(line) ==
    /\ Len(line) = 4
    /\ \A k \in 1..4 :
         /\ line[k].t = "pair"
         /\ line[k].r >= 0
         /\ line[k].i \in 0..255

\* A first loop that makes the record of a line before it parses the line.
RECURSIVE import_read_alloc_first(_, _, _)
import_read_alloc_first(m, lines, rel) ==
    IF lines = <<>> THEN [m |-> m, rel |-> rel, res |-> "Ok"]
    ELSE IF line_is_err(Head(lines)) THEN [m |-> m, rel |-> rel, res |-> "IO"]
    ELSE IF ~from_str_ok(Head(lines))
         THEN [m |-> Manifold_make_quad(m), rel |-> rel, res |-> "Serde"]
    ELSE import_read_alloc_first(Manifold_make_quad(m), Tail(lines),
             Append(rel, [q |-> make_quad_result(m), val |-> Head(lines)]))

\* First loop of import: one make_quad per line, until a line fails to be
\* read or to parse.
RECURSIVE import_read(_, _, _)
import_read(m, lines, rel) ==
    IF lines = <<>> THEN [m |-> m, rel |-> rel, res |-> "Ok"]
    ELSE IF line_is_err(Head(lines)) THEN [m |-> m, rel |-> rel, res |-> "IO"]
    ELSE IF ~from_str_ok(Head(lines)) THEN [m |-> m, rel |-> rel, res |-> "Serde"]
    ELSE import_read(Manifold_make_quad(m), Tail(lines),
                     Append(rel, [q |-> make_quad_result(m), val |-> Head(lines)]))

\* An import that hands each slot the element after its own.
import_target_shifted(rel, k, j) ==
    Node(rel[rel[k].val[(j % 4) + 1].r + 1].q, rel[k].val[(j % 4) + 1].i)

\* Node(rel[i0].0, r0): the ordinal picks a record of this import's batch and
\* the index is stored as read.
import_target(rel, k, j) == Node(rel[rel[k].val[j].r + 1].q, rel[k].val[j].i)

\* A second loop that resolves an ordinal in the whole list of the manifold.
RECURSIVE import_link_absolute(_, _, _)
import_link_absolute(m, rel, k) ==
    IF k > Len(rel) THEN [m |-> m, res |-> "Ok"]
    ELSE IF \E j \in 1..4 : rel[k].val[j].r >= Len(rel)
         THEN [m |-> m, res |-> "panic"]
    ELSE import_link_absolute(
           QuadEdge_set_all(m, rel[k].q,
              [j \in 1..4 |-> Node(m.qrefs[rel[k].val[j].r + 1],
                                   rel[k].val[j].i)]),
           rel, k + 1)

\* Second loop of import: rel[i] panics on an ordinal outside rel, before the
\* set_all of that record.
RECURSIVE import_link(_, _, _)
import_link(m, rel, k) ==
    IF k > Len(rel) THEN [m |-> m, res |-> "Ok"]
    ELSE IF \E j \in 1..4 : rel[k].val[j].r >= Len(rel)
         THEN [m |-> m, res |-> "panic"]
    ELSE import_link(
           QuadEdge_set_all(m, rel[k].q,
              <<import_target(rel, k, 1), import_target(rel, k, 2),
                import_target(rel, k, 3), import_target(rel, k, 4)>>),
           rel, k + 1)

Manifold_import(m, text) ==
    LET rd == import_read(m, buf_lines(text, <<>>), <<>>)
    IN  IF rd.res # "Ok" THEN [m |-> rd.m, res |-> rd.res]
        ELSE import_link(rd.m, rd.rel, 1)

----------------------------------------------------------------------------
(* State *)

VARIABLES
    m,      \* the manifold under construction
    buf,    \* the text the last export wrote
    m2,     \* the manifold that import fills from buf
    last,   \* the last call: its name and its outcome
    steps   \* calls made so far, counted only where a run is cut short

vars == <<m, buf, m2, last, steps>>

Call(op, res) == [op |-> op, res |-> res]

\* The nodes a caller can name: ind(i) of a record of the manifold.
Nodes(mm) == {QuadEdge_ind(mm.qrefs[k], i) : k \in 1..Len(mm.qrefs), i \in Idx}

\* The records of the ordered list.
Records(mm) == {mm.qrefs[k] : k \in 1..Len(mm.qrefs)}

SameParity(a, b) == a.i % 2 = b.i % 2

\* Two empty manifolds; the allocator decides where their arenas lie.
Init ==
    /\ \E s1 \in ArenaStarts, s2 \in ArenaStarts :
         /\ s1 # s2
         /\ m = Manifold_default(s1)
         /\ m2 = Manifold_default(s2)
    /\ buf = <<>>
    /\ last = Call("new", "Ok")
    /\ steps = 0

\* m.make_quad().  A new writer and a new target manifold are used for each
\* round trip, so what an earlier one left is dropped.
MakeQuadCall ==
    /\ Len(m.qrefs) < MaxQuads
    /\ m' = Manifold_make_quad(m)
    /\ last' = Call("make_quad", "Ok")
    /\ buf' = <<>>
    /\ m2' = Manifold_default(m2.start)

\* a.splice(b), recorded under the name op.  The code tests nothing about a
\* and b: the call returns normally unless a next() finds an unset slot
\* ("panic") or, in a build with overflow checks, a rot() is given the index
\* 255 ("overflow", a panic as well).
SpliceCall(op, a, b) ==
    /\ \/ /\ splice_overflows(m, a, b)
          /\ \E overflow_checks \in BOOLEAN :
               IF overflow_checks
               THEN /\ m' = Node_swap(m, a, b)
                    /\ last' = Call(op, "overflow")
               ELSE /\ m' = Node_splice(m, a, b)
                    /\ last' = Call(op, "Ok")
       \/ /\ ~splice_overflows(m, a, b)
          /\ m' = Node_splice(m, a, b)
          /\ last' = Call(op, IF splice_panics(m, a, b) THEN "panic"
                              ELSE "Ok")
    /\ buf' = <<>>
    /\ m2' = Manifold_default(m2.start)

MakeQuad == MakeQuadCall /\ UNCHANGED steps

\* splice on two nodes of equal index parity
Splice ==
    \E a \in Nodes(m), b \in Nodes(m) :
        SameParity(a, b) /\ SpliceCall("splice", a, b) /\ UNCHANGED steps

\* m.export(&mut buf) into a new writer.
Export ==
    /\ last.op \notin {"export", "import"}
    /\ buf' = Manifold_export(m)
    /\ last' = Call("export", "Ok")
    /\ UNCHANGED <<m, m2, steps>>

\* fresh.import(reader over what export wrote)
Import ==
    /\ last.op = "export"
    /\ LET r == Manifold_import(m2, buf)
       IN  /\ m2' = r.m
           /\ last' = Call("import", r.res)
    /\ UNCHANGED <<m, buf, steps>>

Next == MakeQuad \/ Splice \/ Export \/ Import

\* Manifolds built by make_quad and splice on equal-parity nodes, each of
\* which may be exported and imported into a fresh manifold.
Spec == Init /\ [][Next]_vars

\* Largest number of calls in a run that may splice nodes of unequal parity.
MaxSteps == 4

\* No call follows a panic.
Running == last.res \notin {"panic", "overflow"}

CountedMakeQuad ==
    /\ Running
    /\ steps < MaxSteps
    /\ steps' = steps + 1
    /\ MakeQuadCall

CountedSplice ==
    /\ Running
    /\ steps < MaxSteps
    /\ steps' = steps + 1
    /\ \E a \in Nodes(m), b \in Nodes(m) :
         SameParity(a, b) /\ SpliceCall("splice", a, b)

\* splice on two nodes of unequal index parity
CountedSpliceUnequal ==
    /\ Running
    /\ steps < MaxSteps
    /\ steps' = steps + 1
    /\ \E a \in Nodes(m), b \in Nodes(m) :
         ~SameParity(a, b) /\ SpliceCall("splice_unequal", a, b)

\* splice on the handles orig() and dest() give, as main does:
\* a.orig().splice(b.orig()), b.dest().splice(c.orig()), e.orig().splice(e.dest())
CountedSpliceEnds ==
    /\ Running
    /\ steps < MaxSteps
    /\ steps' = steps + 1
    /\ \E qa \in Records(m), qb \in Records(m) :
         \E a \in {QuadEdge_orig(qa), QuadEdge_dest(qa)},
            b \in {QuadEdge_orig(qb), QuadEdge_dest(qb)} :
             SpliceCall("splice_ends", a, b)

NextAnyParity ==
    CountedMakeQuad \/ CountedSplice \/ CountedSpliceUnequal \/ CountedSpliceEnds

\* Runs of at most MaxSteps calls in which splice is given any two nodes,
\* named by index or through orig() and dest().
SpecAnyParity == Init /\ [][NextAnyParity]_vars

----------------------------------------------------------------------------
(* import of any text *)

\* Largest number of calls in a run that imports arbitrary text.
MaxCalls == 3

Line(e0, e1, e2, e3) == <<e0, e1, e2, e3, NL>>

\* Lines that describe an isolated edge, by the record's place in its text.
IsolatedLine(r) == Line(Pair(r, 0), Pair(r, 3), Pair(r, 2), Pair(r, 1))

\* Two records joined at their origins, as splice((q0,0), (q1,0)) leaves them.
JoinedText ==
    Line(Pair(1, 0), Pair(1, 3), Pair(0, 2), Pair(0, 1))
      \o Line(Pair(0, 0), Pair(0, 3), Pair(1, 2), Pair(1, 1))

\* The text of tests::check_manifold_import; its last line has no newline.
TestText ==
    Line(Pair(1, 3), Pair(0, 2), Pair(1, 1), Pair(0, 0))
      \o <<Pair(0, 0), Pair(1, 1), Pair(0, 2), Pair(1, 3)>>

\* Texts that name a record the text does not describe.
OrdinalTexts ==
    { Line(Pair(1, 0), Pair(0, 3), Pair(0, 2), Pair(0, 1)),
      IsolatedLine(0) \o Line(Pair(1, 0), Pair(1, 3), Pair(2, 2), Pair(1, 1)) }

\* Texts with an index that is not a position: 4 and 255 fit u8, 256 does not.
IndexTexts ==
    { Line(Pair(0, 4), Pair(0, 3), Pair(0, 2), Pair(0, 1)),
      Line(Pair(0, 0), Pair(0, 255), Pair(0, 2), Pair(0, 1)),
      IsolatedLine(0) \o Line(Pair(1, 0), Pair(1, 3), Pair(1, 256), Pair(1, 1)) }

\* One record whose even slots all point at its position 0 and whose odd slots
\* all point at its position 1: no export of a spliced manifold reads so.
FoldedText == Line(Pair(0, 0), Pair(0, 1), Pair(0, 0), Pair(0, 1))

\* A blank line between two record lines.
BlankLineText == IsolatedLine(0) \o <<NL>> \o IsolatedLine(1)

\* Texts with a line that is no array of four pairs, or cannot be read.
BrokenTexts ==
    { Line(Pair(1, 0), Pair(1, 3), Pair(0, 2), Pair(0, 1))
        \o <<Pair(0, 0), Pair(0, 3), Pair(1, 2), NL>>,
      Line(Pair(0, 0), NullTok, Pair(0, 2), Pair(0, 1)),
      IsolatedLine(0) \o Line(Pair(1, 0), BadUtf8, Pair(1, 2), Pair(1, 1)) }

\* What a caller may hand to import.
ImportTexts ==
    {<<>>, IsolatedLine(0), JoinedText, TestText, FoldedText, BlankLineText}
      \cup OrdinalTexts \cup IndexTexts \cup BrokenTexts

\* m.import(reader over text); buf keeps the text that was read.
CountedImport ==
    /\ Running
    /\ steps < MaxCalls
    /\ steps' = steps + 1
    /\ \E text \in ImportTexts :
         LET r == Manifold_import(m, text)
         IN  /\ m' = r.m
             /\ last' = Call("import", r.res)
             /\ buf' = text
    /\ UNCHANGED m2

\* m.export(&mut buf) into a new writer.
CountedExport ==
    /\ Running
    /\ steps < MaxCalls
    /\ steps' = steps + 1
    /\ buf' = Manifold_export(m)
    /\ last' = Call("export", "Ok")
    /\ UNCHANGED <<m, m2>>

\* m.make_quad() in such a run
ImportMakeQuad ==
    /\ Running
    /\ steps < MaxCalls
    /\ steps' = steps + 1
    /\ MakeQuadCall

\* splice on two nodes of equal index parity in such a run
ImportSplice ==
    /\ Running
    /\ steps < MaxCalls
    /\ steps' = steps + 1
    /\ \E a \in Nodes(m), b \in Nodes(m) :
         SameParity(a, b) /\ SpliceCall("splice", a, b)

NextImport ==
    ImportMakeQuad \/ ImportSplice \/ CountedImport \/ CountedExport

\* Runs of at most MaxCalls calls of make_quad, splice on equal-parity nodes,
\* import of any text and export, on one manifold.
SpecImport == Init /\ [][NextImport]_vars

----------------------------------------------------------------------------
(* Vocabulary of the properties *)

\* Onext of a node whose slot is set.
Onext(mm, n) == Node_next(mm, n)

RECURSIVE orbit_from(_, _, _)
orbit_from(mm, n, acc) ==
    IF n \in acc THEN acc ELSE orbit_from(mm, Onext(mm, n), acc \cup {n})

\* The Onext-orbit (origin ring) of n.
Orbit(mm, n) == orbit_from(mm, n, {})

\* Zero-based position of record q in the ordered list of mm.
Ordinal(mm, q) == (CHOOSE k \in 1..Len(mm.qrefs) : mm.qrefs[k] = q) - 1

\* The equal-parity pairs of nodes splice may be called on in this state.
SplicePairs ==
    {p \in Nodes(m) \X Nodes(m) : SameParity(p[1], p[2])}

\* The last call was a splice that returned.
Spliced == last.op = "splice" /\ last.res = "Ok"

----------------------------------------------------------------------------
(* Properties of make_quad and splice on equal-parity nodes, and of the    *)
(* export / import round trip                                              *)

\* C1: in every reachable state, for every pair of equal-parity nodes (a, b),
\* a = b and nodes of one record included, splice(a, b) executed twice in a
\* row leaves every next-pointer of every record as it was.
SpliceInvolution ==
    \A p \in SplicePairs :
        \A once \in {Node_splice(m, p[1], p[2])} :
            /\ ~splice_panics(m, p[1], p[2])
            /\ ~splice_panics(once, p[1], p[2])
            /\ Node_splice(once, p[1], p[2]) = m

\* A state built by splicing, with nodes (a, b) of two records whose splice
\* changes pointers, so that the second splice has something to undo.
SpliceInvolutionWitness ==
    /\ Spliced
    /\ \E p \in SplicePairs :
         /\ p[1].q # p[2].q
         /\ Onext(m, p[1]) # p[1]
         /\ Node_splice(m, p[1], p[2]) # m

\* C2: with alpha = Rot(Onext(a)) and beta = Rot(Onext(b)) taken before the
\* call, splice(a, b) on equal-parity nodes yields Onext'(a) = Onext(b),
\* Onext'(b) = Onext(a), Onext'(alpha) = Onext(beta), Onext'(beta) =
\* Onext(alpha), and leaves every other next-pointer unchanged.
SpliceEffect ==
    \A p \in SplicePairs :
        \A after \in {Node_splice(m, p[1], p[2])} :
            LET a == p[1]
                b == p[2]
                alpha == Node_rot(Onext(m, a))
                beta == Node_rot(Onext(m, b))
            IN  /\ ~splice_panics(m, a, b)
                /\ Onext(after, a) = Onext(m, b)
                /\ Onext(after, b) = Onext(m, a)
                /\ Onext(after, alpha) = Onext(m, beta)
                /\ Onext(after, beta) = Onext(m, alpha)
                /\ \A n \in Nodes(m) \ {a, b, alpha, beta} :
                      Onext(after, n) = Onext(m, n)
                /\ after.qrefs = m.qrefs
                /\ DOMAIN after.quads = DOMAIN m.quads

\* A spliced state with nodes (a, b) of two records whose splice exchanges
\* four pointers: those of a and b and those of two dual positions that lie
\* on different records.
SpliceEffectWitness ==
    /\ Spliced
    /\ Len(m.qrefs) = 2
    /\ \E p \in SplicePairs :
         LET alpha == Node_rot(Onext(m, p[1]))
             beta == Node_rot(Onext(m, p[2]))
         IN  /\ p[1].q # p[2].q
             /\ alpha.q # beta.q
             /\ Onext(m, p[1]) # Onext(m, p[2])
             /\ Onext(m, alpha) # Onext(m, beta)
             /\ Onext(m, p[1]).q = p[2].q

\* C3: right after make_quad returns record q, in any prior state,
\* Onext(q,0) = (q,0), Onext(q,1) = (q,3), Onext(q,2) = (q,2),
\* Onext(q,3) = (q,1), and q is appended as the last record of the list.
MakeQuadIsolated ==
    [][ last'.op = "make_quad" =>
          LET q == make_quad_result(m)
          IN  /\ q \notin Records(m)
              /\ m'.qrefs = Append(m.qrefs, q)
              /\ Onext(m', Node(q, 0)) = Node(q, 0)
              /\ Onext(m', Node(q, 1)) = Node(q, 3)
              /\ Onext(m', Node(q, 2)) = Node(q, 2)
              /\ Onext(m', Node(q, 3)) = Node(q, 1) ]_vars

\* make_quad was called on a manifold whose first record had been spliced.
MakeQuadIsolatedWitness ==
    /\ last.op = "make_quad"
    /\ Len(m.qrefs) = 2
    /\ Onext(m, Node(m.qrefs[1], 0)) = Node(m.qrefs[1], 2)
    /\ Onext(m, Node(m.qrefs[2], 1)) = Node(m.qrefs[2], 3)

\* C4: in every reachable state, Onext(n) has the index parity of n, for every
\* node n of every record.
ParityPreserved ==
    \A n \in Nodes(m) : Onext(m, n) # None /\ SameParity(Onext(m, n), n)

\* After a splice, an odd (dual) position points into another record and so
\* does an even (primal) one.
ParityPreservedWitness ==
    /\ Spliced
    /\ \E n \in Nodes(m) : n.i % 2 = 1 /\ Onext(m, n).q # n.q
    /\ \E n \in Nodes(m) : n.i % 2 = 0 /\ Onext(m, n).q # n.q

\* C5: in every reachable state, n -> Onext(n) is a bijection on the
\* positions (record, index in 0..3) of the manifold.
OnextPermutation ==
    /\ \A n \in Nodes(m) : Onext(m, n) \in Nodes(m)
    /\ \A n1 \in Nodes(m), n2 \in Nodes(m) :
         Onext(m, n1) = Onext(m, n2) => n1 = n2
    /\ \A n \in Nodes(m) : \E p \in Nodes(m) : Onext(m, p) = n

\* A state after a splice in which some orbit has three or more positions.
OnextPermutationWitness ==
    /\ Spliced
    /\ \E n \in Nodes(m) : Cardinality(Orbit(m, n)) >= 3

\* C6: if equal-parity nodes a and b lie in different Onext-orbits before
\* splice(a, b), then after it they lie in one orbit, whose members are
\* exactly the union of the two former orbits.
SpliceMergesRings ==
    \A p \in SplicePairs :
        \A after \in {Node_splice(m, p[1], p[2])} :
          LET a == p[1]
              b == p[2]
          IN  b \notin Orbit(m, a) =>
                /\ Orbit(after, a) = Orbit(m, a) \cup Orbit(m, b)
                /\ Orbit(after, b) = Orbit(after, a)

\* A spliced state with nodes a and b of different orbits and of different
\* records, the orbit of a having two or more positions.
SpliceMergesRingsWitness ==
    /\ Spliced
    /\ \E p \in SplicePairs :
         /\ p[2] \notin Orbit(m, p[1])
         /\ p[1].q # p[2].q
         /\ Cardinality(Orbit(m, p[1])) >= 2

\* C7, as stated: if equal-parity nodes a and b lie in the same Onext-orbit
\* before splice(a, b), then after it that orbit is split into two disjoint
\* orbits, one holding a and the other holding b.
SpliceSplitsRingsAsStated ==
    \A p \in SplicePairs :
        \A after \in {Node_splice(m, p[1], p[2])} :
          LET a == p[1]
              b == p[2]
          IN  b \in Orbit(m, a) =>
                /\ Orbit(after, a) \cap Orbit(after, b) = {}
                /\ Orbit(after, a) \cup Orbit(after, b) = Orbit(m, a)

\* C7, amended: if two distinct equal-parity nodes a # b lie in the same
\* Onext-orbit before splice(a, b), then after it that orbit is split into two
\* disjoint orbits, one holding a and the other holding b (splice(a, a)
\* changes nothing).
SpliceSplitsRings ==
    \A p \in SplicePairs :
        \A after \in {Node_splice(m, p[1], p[2])} :
          LET a == p[1]
              b == p[2]
          IN  (a # b /\ b \in Orbit(m, a)) =>
                /\ Orbit(after, a) \cap Orbit(after, b) = {}
                /\ Orbit(after, a) \cup Orbit(after, b) = Orbit(m, a)

\* A spliced state with two distinct nodes on one orbit of three or more
\* positions that spans two records.
SpliceSplitsRingsWitness ==
    /\ Spliced
    /\ \E p \in SplicePairs :
         /\ p[1] # p[2]
         /\ p[2] \in Orbit(m, p[1])
         /\ Cardinality(Orbit(m, p[1])) >= 3
         /\ \E n \in Orbit(m, p[1]) : n.q # p[1].q

\* C9: in every reachable state and for every pair of equal-parity nodes
\* (a, b), splice(a, b) and splice(b, a) give the same next-pointer table.
SpliceSymmetric ==
    \A p \in SplicePairs :
        Node_splice(m, p[1], p[2]) = Node_splice(m, p[2], p[1])

\* A spliced state with nodes (a, b) of two records whose splice changes the
\* pointer of a and the pointer of a dual position.
SpliceSymmetricWitness ==
    /\ Spliced
    /\ \E p \in SplicePairs :
         LET alpha == Node_rot(Onext(m, p[1]))
         IN  /\ p[1].q # p[2].q
             /\ Onext(m, p[1]) # p[1]
             /\ Onext(m, p[2]) # p[2]
             /\ Onext(Node_splice(m, p[1], p[2]), p[1]) # Onext(m, p[1])
             /\ Onext(Node_splice(m, p[2], p[1]), alpha) # Onext(m, alpha)

\* C10: importing the output of export(M) into a fresh empty manifold
\* succeeds and yields M' with as many records as M such that Onext in M of
\* (record r, i) is (record s, j) iff Onext in M' of (record r, i) is
\* (record s, j), records being named by their ordinals.
RoundTrip ==
    last.op = "import" =>
        /\ last.res = "Ok"
        /\ Len(m2.qrefs) = Len(m.qrefs)
        /\ \A r \in 1..Len(m.qrefs), i \in Idx :
             LET n == Onext(m, Node(m.qrefs[r], i))
                 n2 == Onext(m2, Node(m2.qrefs[r], i))
             IN  /\ n2.q \in Records(m2)
                 /\ n2.i = n.i
                 /\ Ordinal(m2, n2.q) = Ordinal(m, n.q)

\* An imported manifold whose first record holds a self-reference and a
\* forward reference to the record of the second line.
RoundTripWitness ==
    /\ last.op = "import"
    /\ Len(m2.qrefs) = 2
    /\ \E i \in Idx : Onext(m2, Node(m2.qrefs[1], i)) = Node(m2.qrefs[1], i)
    /\ \E i \in Idx : Onext(m2, Node(m2.qrefs[1], i)).q = m2.qrefs[2]

----------------------------------------------------------------------------
(* splice on nodes of unequal parity *)

\* C8: when splice(a, b) is called with nodes of unequal index parity, the
\* call is aborted as a precondition failure and no next-pointer of any
\* record is changed: whatever the call reports, it leaves every next-pointer
\* as it was.
SpliceParityEnforced ==
    [][ last'.op = "splice_unequal" => m'.quads = m.quads ]_vars

----------------------------------------------------------------------------
(* Properties of export and import of any text *)

\* text has one line per record of mm, in the order of the list, and the j-th
\* element of line k names the target of slot j of the k-th record by the
\* number of records created before it and by its index.
ExportShape(text, mm) ==
    /\ Len(text) = 5 * Len(mm.qrefs)
    /\ \A k \in 1..Len(mm.qrefs) :
         /\ text[5 * k] = NL
         /\ \A j \in Idx :
              LET target == Onext(mm, Node(mm.qrefs[k], j))
                  before == {p \in 1..Len(mm.qrefs) :
                               \E t \in (p + 1)..Len(mm.qrefs) :
                                   mm.qrefs[t] = target.q}
              IN  text[5 * (k - 1) + j + 1] =
                      Pair(Cardinality(before), target.i)

\* C11: export writes exactly one line per record, in creation order, line k
\* describing the k-th created record, its j-th element being [r, i] with r
\* the number of records created before the target of Onext(record k, j) and
\* i the target's index; and no call of make_quad, splice, import or export
\* changes the ordinal of a record.
ExportOrdered ==
    [][ /\ last'.op = "export" => ExportShape(buf', m')
        /\ \A k \in 1..Len(m.qrefs) :
              /\ k <= Len(m'.qrefs)
              /\ m'.qrefs[k] = m.qrefs[k] ]_vars

\* An export of three records, the last two imported after a make_quad, in
\* which the second record points at the third.
ExportOrderedWitness ==
    /\ last.op = "export"
    /\ Len(m.qrefs) = 3
    /\ Onext(m, Node(m.qrefs[2], 0)).q = m.qrefs[3]
    /\ buf[6].r = 2

\* The last call was an import; buf holds the text it read.
Imported == last.op = "import"

\* The pairs [r, i] of a text.
PairsOf(text) == {text[k] : k \in {p \in 1..Len(text) : text[p].t = "pair"}}

\* Number of lines of a text, a last line without newline included.
LineCount(text) ==
    Cardinality({k \in 1..Len(text) : text[k].t = "nl"})
      + (IF text # <<>> /\ text[Len(text)].t # "nl" THEN 1 ELSE 0)

\* C12: when an input line contains an element [r, i] whose ordinal r is not
\* the ordinal of a record the input describes (r >= number of input lines),
\* import returns a parse error to the caller; it neither panics nor
\* completes successfully.
ImportRejectsOrdinal ==
    (Imported /\ \E e \in PairsOf(buf) : e.r >= LineCount(buf))
        => last.res = "Serde"

\* C13: when an input line contains an element [r, i] whose index i is
\* outside {0,1,2,3}, import returns a parse error, and no next-pointer with
\* an index outside {0,1,2,3} is ever stored in a record.
ImportRejectsIndex ==
    /\ (Imported /\ \E e \in PairsOf(buf) : e.i \notin Idx)
          => last.res = "Serde"
    /\ \A n \in Nodes(m) : Onext(m, n).i \in Idx

\* C16: after any sequence of make_quad, splice and import on a manifold,
\* each of the four next-pointer slots of every record of the list is set and
\* references a record of the same list; hence no splice fails with "Node not
\* initialized", and export writes no null and finds an ordinal for every
\* target.
NoDanglingHandles ==
    /\ \A map \in {export_map(m)} :
         \A q \in Records(m), k \in Idx :
             /\ m.quads[q].next[k] # None
             /\ m.quads[q].next[k].q \in Records(m)
             /\ m.quads[q].next[k].q \in DOMAIN map
    /\ last.op = "splice" => last.res # "panic"
    /\ last.op = "export" => \A k \in 1..Len(buf) : buf[k].t # "null"

\* A successful import of two records into a manifold that held one, the new
\* records pointing at each other.
NoDanglingHandlesWitness ==
    /\ Imported
    /\ last.res = "Ok"
    /\ Len(m.qrefs) = 3
    /\ Onext(m, Node(m.qrefs[2], 0)).q = m.qrefs[3]
    /\ Onext(m, Node(m.qrefs[3], 0)).q = m.qrefs[2]

\* Every element of the text is a pair with an ordinal the text describes and
\* an index in {0,1,2,3}.
WellFormed(text) ==
    \A k \in 1..Len(text) :
        text[k].t # "nl" =>
            /\ text[k].t = "pair"
            /\ text[k].r < LineCount(text)
            /\ text[k].i \in Idx

\* The element at place j of each line has an index of the parity of j.
SlotParity(text) ==
    \A k \in 1..Len(text) :
        text[k].t = "pair" =>
            LET j == Cardinality({p \in 1..(k - 1) :
                        \A t \in p..(k - 1) : text[t].t # "nl"})
            IN  text[k].i % 2 = j % 2

\* I2 for every record of mm, on next-pointers with an index in {0,1,2,3}.
I2(mm) ==
    \A n \in Nodes(mm) :
        /\ Onext(mm, n).i \in Idx
        /\ SameParity(Onext(mm, n), n)

\* The involution law for every equal-parity pair of nodes of mm.
InvolutionLaw(mm) ==
    \A a \in Nodes(mm), b \in Nodes(mm) :
        SameParity(a, b) =>
            \A once \in {Node_splice(mm, a, b)} :
                /\ ~splice_panics(mm, a, b)
                /\ ~splice_overflows(mm, a, b)
                /\ ~splice_panics(once, a, b)
                /\ ~splice_overflows(once, a, b)
                /\ Node_splice(once, a, b) = mm

\* C17, as stated: after import returns successfully on a well-formed input
\* (four [r, i] per line, r in range, i in {0,1,2,3}), I2, which held before
\* the call, holds for every record of the manifold: Onext(n) has the index
\* parity of n for every node n, and an equal-parity splice that follows
\* satisfies the involution law.
ImportKeepsParityAsStated ==
    [][ ( /\ last'.op = "import"
          /\ last'.res = "Ok"
          /\ WellFormed(buf')
          /\ I2(m) )
        => (I2(m') /\ InvolutionLaw(m')) ]_vars

\* C17, amended: after import returns successfully on a well-formed input in
\* which, moreover, the element at place j of every line has an index of the
\* parity of j, I2, which held before the call, holds for every record of the
\* manifold, and an equal-parity splice that follows satisfies the involution
\* law.
ImportKeepsParity ==
    [][ ( /\ last'.op = "import"
          /\ last'.res = "Ok"
          /\ WellFormed(buf')
          /\ SlotParity(buf')
          /\ I2(m) )
        => (I2(m') /\ InvolutionLaw(m')) ]_vars

\* A successful import of two joined records, from a well-formed text that
\* keeps to the parity of the slots, into a manifold that held one record.
ImportKeepsParityWitness ==
    /\ Imported
    /\ last.res = "Ok"
    /\ WellFormed(buf)
    /\ SlotParity(buf)
    /\ LineCount(buf) = 2
    /\ Len(m.qrefs) = 3
    /\ I2(m)
    /\ Onext(m, Node(m.qrefs[2], 1)).q = m.qrefs[3]

\* The lines of a text, as import reads them.
LinesOf(text) == buf_lines(text, <<>>)

\* The pattern make_quad gives record q.
IsolatedEdge(mm, q) ==
    mm.quads[q].next =
        [k \in Idx |-> Node(q, CASE k = 0 -> 0 [] k = 1 -> 3
                                 [] k = 2 -> 2 [] k = 3 -> 1)]

\* C18: for an input whose lines include empty lines, the other lines being
\* well-formed, import skips the empty lines without error and appends as
\* many records as there are non-empty lines.
ImportSkipsEmptyLines ==
    [][ LET lines == LinesOf(buf')
            nonempty == {k \in 1..Len(lines) : lines[k] # <<>>}
        IN  ( /\ last'.op = "import"
              /\ \E k \in 1..Len(lines) : lines[k] = <<>>
              /\ \A k \in nonempty :
                    /\ Len(lines[k]) = 4
                    /\ \A j \in 1..4 :
                          /\ lines[k][j].t = "pair"
                          /\ lines[k][j].r < Cardinality(nonempty)
                          /\ lines[k][j].i \in Idx )
            => /\ last'.res = "Ok"
               /\ Len(m'.qrefs) = Len(m.qrefs) + Cardinality(nonempty) ]_vars

\* 1-based place of the first line of the text that cannot be read or parsed.
FirstBadLine(text) ==
    LET lines == LinesOf(text)
        bad(k) == line_is_err(lines[k]) \/ ~from_str_ok(lines[k])
    IN  CHOOSE k \in 1..Len(lines) : bad(k) /\ \A j \in 1..(k - 1) : ~bad(j)

\* C19: if import returns a parse or I/O error at input line k (0-based),
\* exactly k new records have been appended and each of them has the
\* isolated-edge pattern of make_quad: no pointer of the input was applied.
ImportFailureLeavesIsolated ==
    [][ (last'.op = "import" /\ last'.res \in {"Serde", "IO"})
        => LET k == FirstBadLine(buf') - 1
           IN  /\ Len(m'.qrefs) = Len(m.qrefs) + k
               /\ \A p \in (Len(m.qrefs) + 1)..Len(m'.qrefs) :
                     IsolatedEdge(m', m'.qrefs[p]) ]_vars

\* An import into a manifold of one record failed at its second line, whose
\* first line names pointers other than those of an isolated edge.
ImportFailureLeavesIsolatedWitness ==
    /\ Imported
    /\ last.res \in {"Serde", "IO"}
    /\ Len(m.qrefs) = 2
    /\ FirstBadLine(buf) = 2
    /\ buf[1] # Pair(0, 0)

\* C20: when import is called on a manifold that holds k records, an ordinal
\* r of the input is resolved to the r-th record this call creates (ordinal
\* k + r of the manifold), and no next-pointer of the k records is changed,
\* whether the call succeeds or fails; an export that follows describes the
\* imported records with the ordinals of the input shifted by k.
ImportBatchRelative ==
    [][ last'.op = "import" =>
          LET k == Len(m.qrefs)
              lines == LinesOf(buf')
              text == Manifold_export(m')
          IN  /\ \A p \in 1..k :
                    /\ m'.qrefs[p] = m.qrefs[p]
                    /\ m'.quads[m.qrefs[p]] = m.quads[m.qrefs[p]]
              /\ last'.res = "Ok" =>
                    /\ Len(m'.qrefs) = k + Len(lines)
                    /\ \A p \in 1..Len(lines), j \in Idx :
                          LET e == lines[p][j + 1]
                              target == Onext(m', Node(m'.qrefs[k + p], j))
                          IN  /\ target = Node(m'.qrefs[k + e.r + 1], e.i)
                              /\ text[5 * (k + p - 1) + j + 1]
                                   = Pair(k + e.r, e.i) ]_vars

\* A successful import of two records that point at each other into a
\* manifold whose one record had been spliced.
ImportBatchRelativeWitness ==
    /\ Imported
    /\ last.res = "Ok"
    /\ Len(m.qrefs) = 3
    /\ Onext(m, Node(m.qrefs[1], 0)) = Node(m.qrefs[1], 2)
    /\ Onext(m, Node(m.qrefs[2], 0)).q = m.qrefs[3]

----------------------------------------------------------------------------
(* Handles and rotation *)

\* C14: for every record q, orig() is the node at position 0 of q and dest()
\* the node at position 2 of q, so that the two are distinct nodes and
\* a.orig().splice(a.dest()) is a splice of positions 0 and 2.
OrigDestMapping ==
    \A q \in Records(m) :
        /\ QuadEdge_orig(q) = Node(q, 0)
        /\ QuadEdge_dest(q) = Node(q, 2)
        /\ QuadEdge_orig(q) # QuadEdge_dest(q)
        /\ Node_splice(m, QuadEdge_orig(q), QuadEdge_dest(q))
             = Node_splice(m, Node(q, 0), Node(q, 2))

\* Every value of the u8 argument of ind.
U8 == 0..255

\* C15: for every record q and every index i supplied, 4 and more included,
\* ind(i) is the node (q, i mod 4) and Rot of it is (q, (i+1) mod 4), computed
\* without overflow; applying Rot four times to such a node returns the node,
\* and Rot stays on the record.  (Rot is a function of the node alone: it is
\* given no next-pointer and returns none.)
RotationClosure ==
    \A q \in Records(m), i \in U8 :
        LET n == QuadEdge_ind(q, i)
        IN  /\ n = Node(q, i % 4)
            /\ ~rot_overflows(n)
            /\ Node_rot(n) = Node(q, (i + 1) % 4)
            /\ Node_rot(n).q = q
            /\ Node_rot(Node_rot(Node_rot(Node_rot(n)))) = n

\* A splice has applied Rot to a pointer at position 3 of another record,
\* which Rot takes round to position 0.
RotationClosureWitness ==
    /\ Spliced
    /\ \E n \in Nodes(m) :
         /\ Onext(m, n).i = 3
         /\ Onext(m, n).q # n.q
         /\ Node_rot(Onext(m, n)) = QuadEdge_ind(Onext(m, n).q, 4)

====
